---- MODULE Spec2Model ----
(***************************************************************************)
(* A model of scrapy_mongodb.MongoDBPipeline (src/scrapy_mongodb.py): the  *)
(* per-type routing, buffering and insert/upsert of scraped items, with    *)
(* the MongoDB collections it writes to and the crawler engine it may ask  *)
(* to stop.  One action per pipeline method Scrapy calls: open_spider,     *)
(* process_item and close_spider.  A method that raises keeps the          *)
(* assignments it made before the raise; Scrapy logs the exception of      *)
(* process_item, drops the item and goes on with the next one.             *)
(*                                                                         *)
(* The store is pymongo 2.x against a stand-alone server with acknowledged *)
(* writes (MongoClient's default): insert() adds an ObjectId under "_id"   *)
(* to every document that has none, in place, and with continue_on_error   *)
(* stores every non-duplicate document of a batch and raises one           *)
(* DuplicateKeyError afterwards when some document was a duplicate.        *)
(***************************************************************************)
EXTENDS Integers, Sequences, FiniteSets, TLC

\* The number of process_item calls of a run.
MaxSubmits == 3

\* Python's None for an exception or a value that is absent.
None == "None"

\* type(item).__name__ of the items the spider yields; "C" has no entry in
\* config['collection'].
ItemClasses == {"A", "B", "C"}

\* The values of an item's "_id" field (0: the item has no "_id" field) and
\* of its field "k", the field a unique_key names.
IdValues == {0, 1}
KeyValues == {1, 2}

\* unique_key: None, or the name of a field.
NoKey == [kind |-> "none", field |-> None]
KeyK == [kind |-> "str", field |-> "k"]

\* unique_key as a list: of (field, direction) pairs, the list
\* ensure_index takes, or of bare field names.
KeyPairs == [kind |-> "pairs", field |-> None, fields |-> <<"k", "v">>]
KeyNames == [kind |-> "names", field |-> None, fields |-> <<"k", "v">>]

Entry(name, unique_key, buffer, append_timestamp, stop_on_duplicate) ==
    [name |-> name, unique_key |-> unique_key, buffer |-> buffer,
     append_timestamp |-> append_timestamp,
     stop_on_duplicate |-> stop_on_duplicate]

\* config['collection']['default'] of the class.  buffer None is written 0:
\* open_spider and process_item only test its truth.
DefaultEntry == Entry("items", NoKey, 0, FALSE, 0)

\* An entry given without some of its fields: configure() takes the
\* setting's dict as it is (self.config[key] = self.settings[setting]).
Without(entry, fields) == [f \in DOMAIN entry \ fields |-> entry[f]]

\* The field names of an entry.
OptionalFields == {"unique_key", "buffer", "append_timestamp", "stop_on_duplicate"}

\* The entries a user gives a type in MONGODB_COLLECTION.
EntriesOf(name) ==
    { Entry(name, NoKey, 1, FALSE, 0),
      Entry(name, NoKey, 1, TRUE, 2),
      Entry(name, NoKey, 0, FALSE, 1),
      Entry(name, KeyK, 2, FALSE, 1),
      Entry(name, KeyK, 0, TRUE, 0),
      Entry(name, NoKey, 2, FALSE, -1),
      Entry(name, KeyPairs, 2, FALSE, 0),
      Entry(name, KeyNames, 0, FALSE, 0),
      Without(Entry(name, NoKey, 2, FALSE, 0), {"append_timestamp"}),
      Without(Entry(name, NoKey, 0, FALSE, 0), OptionalFields) }

\* The entries of the second type: buffered without a key, and unbuffered
\* with one.
FewEntriesOf(name) ==
    { Entry(name, NoKey, 2, TRUE, 0),
      Entry(name, KeyK, 0, FALSE, 0) }

\* config['collection'] after configure(): the settings' MONGODB_COLLECTION.
Configs ==
    { [t \in {"default", "A", "B"} |->
          CASE t = "default" -> DefaultEntry
            [] t = "A" -> a
            [] t = "B" -> b] :
      a \in EntriesOf("a"), b \in FewEntriesOf("b") }

VARIABLES
    phase,                \* "new", "open", "failed" (open_spider raised), "closed",
                          \* "late" (a process_item after close_spider)
    config,               \* self.config['collection']
    connected,            \* whether a MongoClient was created
    collection,           \* self.collection: itype -> collection name
    stop_on_duplicate,    \* self.stop_on_duplicate
    buffer_settings,      \* self.buffer_settings
    item_buffer,          \* MongoDBPipeline.item_buffer
    current_item,         \* MongoDBPipeline.current_item
    duplicate_key_count,  \* MongoDBPipeline.duplicate_key_count
    store,                \* the database: collection name -> set of documents
    indexes,              \* the unique indexes ensured: <<collection name, field>>
    nsub,                 \* process_item calls so far
    submitted,            \* per item class, the items submitted, in order
    handed,               \* per item (by its v), the insert_item calls it was in
    engineCalls,          \* per itype, the insert_item calls
    violations,           \* per itype, the DuplicateKeyErrors caught
    dupDocs,              \* per itype, the documents the store refused as duplicates
    stopCalls,            \* per itype, the crawler.engine.close_spider calls
    last                  \* what the last method call did

vars == <<phase, config, connected, collection, stop_on_duplicate,
          buffer_settings, item_buffer, current_item, duplicate_key_count,
          store, indexes, nsub, submitted, handed, engineCalls, violations,
          dupDocs, stopCalls, last>>

\* d[k] = v of a Python dict.
Put(d, k, v) == [x \in DOMAIN d \cup {k} |-> IF x = k THEN v ELSE d[x]]

\* {} of Python.
EmptyDict == [x \in {} |-> 0]

NoValue == [kind |-> "none", items |-> <<>>]
DictValue(item) == [kind |-> "dict", items |-> <<item>>]
ListValue(items) == [kind |-> "list", items |-> items]

NoCall == [op |-> "none", cls |-> None, itype |-> None, path |-> None,
           calls |-> <<>>, ret |-> NoValue, exc |-> None, dup |-> FALSE,
           stops |-> 0, buffers |-> EmptyDict,
           filter |-> [built |-> FALSE, key |-> EmptyDict], wrote |-> FALSE]

Init ==
    /\ phase = "new"
    /\ config \in Configs
    /\ connected = FALSE
    /\ collection = EmptyDict
    /\ stop_on_duplicate = EmptyDict
    /\ buffer_settings = EmptyDict
    /\ item_buffer = EmptyDict
    /\ current_item = EmptyDict
    /\ duplicate_key_count = EmptyDict
    /\ store = [n \in {"items", "a", "b"} |-> {}]
    /\ indexes = {}
    /\ nsub = 0
    /\ submitted = [c \in ItemClasses |-> <<>>]
    /\ handed = [s \in 1..MaxSubmits |-> 0]
    /\ engineCalls = [t \in DOMAIN config |-> 0]
    /\ violations = [t \in DOMAIN config |-> 0]
    /\ dupDocs = [t \in DOMAIN config |-> 0]
    /\ stopCalls = [t \in DOMAIN config |-> 0]
    /\ last = NoCall

----------------------------------------------------------------------------
(* open_spider *)

\* The truth value Python gives a number: None and 0 are false.
Truthy(n) == n # 0

\* The orders in which config['collection'].items() may yield the entries.
Orders ==
    { o \in [1..Cardinality(DOMAIN config) -> DOMAIN config] :
        \A i, j \in DOMAIN o : o[i] = o[j] => i = j }

\* One turn of open_spider's loop, for the entry of itype; st holds the
\* dicts the loop fills and the exception raised so far.
\* The fields of the index ensure_index(unique_key, unique=True) makes.
IndexFields(unique_key) ==
    IF unique_key.kind = "str" THEN <<unique_key.field>> ELSE unique_key.fields

\* Whether ensure_index takes the unique_key: a field name, or a list of
\* (field, direction) pairs; for a list of anything else it raises TypeError.
IndexSpecOk(unique_key) == unique_key.kind \in {"none", "str", "pairs"}

\* Each collection[field] of the body raises KeyError for a field the
\* entry lacks and leaves what the body assigned before it.
OpenEntry(st, itype) ==
    LET c == config[itype]
        named == [st EXCEPT !.collection = Put(@, itype, c.name)]
        buffered == [named EXCEPT
                       !.buffer_settings =
                           Put(@, itype, IF Truthy(c.buffer) THEN c.buffer ELSE 0),
                       !.item_buffer = Put(@, itype, <<>>),
                       !.current_item = Put(@, itype, 0)]
        st1 == [buffered EXCEPT
                  !.indexes = IF c.unique_key.kind # "none"
                              THEN @ \cup {<<c.name, IndexFields(c.unique_key)>>}
                              ELSE @]
    IN  IF st.exc # None THEN st
        ELSE IF "name" \notin DOMAIN c THEN [st EXCEPT !.exc = "KeyError"]
        ELSE IF "buffer" \notin DOMAIN c THEN [named EXCEPT !.exc = "KeyError"]
        ELSE IF "unique_key" \notin DOMAIN c
        THEN [buffered EXCEPT !.exc = "KeyError"]
        ELSE IF ~IndexSpecOk(c.unique_key)
        THEN [buffered EXCEPT !.exc = "TypeError"]
        ELSE IF "stop_on_duplicate" \notin DOMAIN c
        THEN [st1 EXCEPT !.exc = "KeyError"]
        ELSE IF Truthy(c.stop_on_duplicate)
        THEN IF c.stop_on_duplicate < 0
             THEN [st1 EXCEPT !.exc = "SyntaxError"]
             ELSE [st1 EXCEPT !.stop_on_duplicate =
                                  Put(@, itype, c.stop_on_duplicate)]
        ELSE [st1 EXCEPT !.stop_on_duplicate = Put(@, itype, 0)]

RECURSIVE OpenLoop(_, _, _)
OpenLoop(st, order, i) ==
    IF i > Len(order) THEN st
    ELSE OpenLoop(OpenEntry(st, order[i]), order, i + 1)

OpenSpider ==
    /\ phase = "new"
    /\ \E order \in Orders :
         LET st0 == [collection |-> EmptyDict,
                     stop_on_duplicate |-> EmptyDict,
                     buffer_settings |-> EmptyDict,
                     item_buffer |-> item_buffer,
                     current_item |-> current_item,
                     indexes |-> indexes,
                     exc |-> None]
             st == OpenLoop(st0, order, 1)
         IN  /\ connected' = TRUE
             /\ collection' = st.collection
             /\ stop_on_duplicate' = st.stop_on_duplicate
             /\ buffer_settings' = st.buffer_settings
             /\ item_buffer' = st.item_buffer
             /\ current_item' = st.current_item
             /\ indexes' = st.indexes
             /\ phase' = IF st.exc = None THEN "open" ELSE "failed"
             /\ last' = [NoCall EXCEPT !.op = "open_spider", !.exc = st.exc]
    /\ UNCHANGED <<config, duplicate_key_count, store, nsub, submitted,
                   handed, engineCalls, violations, dupDocs, stopCalls>>

----------------------------------------------------------------------------
(* The store: pymongo's Collection.insert and Collection.update *)

\* ObjectId(): the "_id" insert() gives a document that has none.  Items
\* differ in v, so the ids differ; given ids are positive.
ObjectId(item) == 0 - item.v

\* insert() adds the "_id" to the document itself.
WithId(item) == IF item.id = 0 THEN [item EXCEPT !.id = ObjectId(item)] ELSE item

WithIds(items) == [i \in DOMAIN items |-> WithId(items[i])]

\* The server's part of insert(items, continue_on_error=True): a document
\* whose "_id" is taken is skipped and the rest are still stored.
RECURSIVE InsertDocs(_, _, _, _)
InsertDocs(docs, items, i, dup) ==
    IF i > Len(items) THEN [docs |-> docs, dup |-> dup]
    ELSE IF \E d \in docs : d.id = items[i].id
         THEN InsertDocs(docs, items, i + 1, TRUE)
         ELSE InsertDocs(docs \cup {items[i]}, items, i + 1, dup)

\* Collection.insert(items, continue_on_error=True): dup says that it raised
\* DuplicateKeyError.
Insert(docs, items) ==
    LET r == InsertDocs(docs, WithIds(items), 1, FALSE)
    IN  [docs |-> r.docs, items |-> WithIds(items), dup |-> r.dup]

\* Collection.update(key, item, upsert=True): the document that has the
\* values of key is replaced and keeps its "_id" (the server refuses to
\* change an "_id"), or item is inserted.
Upsert(docs, key, item) ==
    LET found == {d \in docs : \A n \in DOMAIN key : d[n] = key[n]}
    IN  IF found = {} THEN [docs |-> docs \cup {WithId(item)}, exc |-> None]
        ELSE LET d == CHOOSE x \in found : TRUE
             IN  IF item.id # 0 /\ item.id # d.id
                 THEN [docs |-> docs, exc |-> "OperationFailure"]
                 ELSE [docs |-> (docs \ {d}) \cup {[item EXCEPT !.id = d.id]},
                       exc |-> None]

----------------------------------------------------------------------------
(* insert_item *)

\* The names insert_item can read: its parameters and local, the builtins
\* it uses and the module's globals.
Names == {"self", "item", "spider", "itype", "collection", "isinstance",
          "list", "dict", "datetime", "errors", "log", "MongoClient",
          "MongoReplicaSetClient", "ReadPreference", "BaseItemExporter",
          "VERSION", "not_set", "MongoDBPipeline"}

\* The name insert_item reads to decide on the timestamp of a single item.
TimestampName == "collecgtion"

\* OnDuplicateKey counting every duplicate, also for a type without
\* stop_on_duplicate, from a count of 0.
OnDuplicateKeyUnguarded(itype, dkc) ==
    LET n == (IF itype \in DOMAIN dkc THEN dkc[itype] ELSE 0) + 1
    IN  [dkc |-> Put(dkc, itype, n), exc |-> None,
         stops |-> IF n >= stop_on_duplicate[itype] THEN 1 ELSE 0]

\* The except clause of insert_item: the duplicate is counted when the
\* type has a stop_on_duplicate, and the engine is asked to close the spider
\* once the count is there.  A dict raises KeyError on += of a missing key.
OnDuplicateKey(itype, dkc) ==
    IF stop_on_duplicate[itype] > 0
    THEN IF itype \notin DOMAIN dkc
         THEN [dkc |-> dkc, exc |-> "KeyError", stops |-> 0]
         ELSE LET n == dkc[itype] + 1
              IN  [dkc |-> Put(dkc, itype, n), exc |-> None,
                   stops |-> IF n >= stop_on_duplicate[itype] THEN 1 ELSE 0]
    ELSE [dkc |-> dkc, exc |-> None, stops |-> 0]

\* InsertsPlainly taking the insert() path whatever the unique_key.
InsertsPlainlyAlways(c) == TRUE

\* Whether insert_item inserts (and may meet a DuplicateKeyError) or
\* upserts: collection['unique_key'] is None.
InsertsPlainly(c) == c.unique_key.kind = "none"

\* No key was built.
NoFilter == [built |-> FALSE, key |-> EmptyDict]

\* key[k] = item[k] for the field names: item[k] of a list raises
\* TypeError, of a dict without the field KeyError.
FilterOf(names, item) ==
    IF names = {} THEN [built |-> TRUE, key |-> EmptyDict, exc |-> None]
    ELSE IF item.kind = "list"
    THEN [built |-> FALSE, key |-> EmptyDict, exc |-> "TypeError"]
    ELSE IF \E n \in names : n \notin DOMAIN item.items[1]
    THEN [built |-> FALSE, key |-> EmptyDict, exc |-> "KeyError"]
    ELSE [built |-> TRUE, key |-> [n \in names |-> item.items[1][n]],
          exc |-> None]

\* The key insert_item builds of unique_key for update(): for a list the
\* fields are dict(unique_key).keys(), and dict() takes a list of pairs; of
\* a list of field names (no name of the model has two characters, which
\* dict() would split into a key and a value) it raises ValueError.
KeyFilter(unique_key, item) ==
    CASE unique_key.kind = "str" -> FilterOf({unique_key.field}, item)
      [] unique_key.kind = "pairs" ->
            FilterOf({unique_key.fields[i] : i \in DOMAIN unique_key.fields}, item)
      [] OTHER -> [built |-> FALSE, key |-> EmptyDict, exc |-> "ValueError"]

\* insert_item(item, spider, itype) on the documents docs of the type's
\* collection, with the duplicate counts dkc.  value is item as the call
\* leaves it (what it returns, when exc is None).
InsertItem(item, itype, docs, dkc) ==
    LET c == config[itype]
        out == [docs |-> docs, dkc |-> dkc, value |-> item, exc |-> None,
                dup |-> FALSE, stops |-> 0, filter |-> NoFilter]
    IN  IF item.kind # "list" /\ TimestampName \notin Names
        THEN [out EXCEPT !.exc = "NameError"]
        ELSE
        LET items == IF item.kind # "list" /\ c.append_timestamp
                     THEN <<[item.items[1] EXCEPT !.ts = TRUE]>>
                     ELSE item.items
        IN  IF InsertsPlainly(c)
            THEN LET r == Insert(docs, items)
                     h == OnDuplicateKey(itype, dkc)
                     o == [out EXCEPT !.docs = r.docs,
                                      !.value = [item EXCEPT !.items = r.items]]
                 IN  IF r.dup
                     THEN [o EXCEPT !.dup = TRUE, !.dkc = h.dkc,
                                    !.exc = h.exc, !.stops = h.stops]
                     ELSE o
            ELSE LET f == KeyFilter(c.unique_key, [item EXCEPT !.items = items])
                 IN  IF f.exc # None THEN [out EXCEPT !.exc = f.exc]
                     ELSE LET u == Upsert(docs, f.key, items[1])
                          IN  [out EXCEPT
                                 !.docs = u.docs, !.exc = u.exc,
                                 !.filter = [built |-> TRUE, key |-> f.key],
                                 !.value = [item EXCEPT !.items = items]]

----------------------------------------------------------------------------
(* process_item *)

\* The item process_item works on: dict(self._get_serialized_fields(item)),
\* with v telling the items of a run apart.
Serialized(id, k, v) == [id |-> id, k |-> k, v |-> v, ts |-> FALSE]

\* An entry of config['collection'] is a non-empty dict, which is true.
EntryIsFalse(entry) == DOMAIN entry = {}

\* The itype process_item settles on for an item of class cls: the lookup
\* config['collection'][cls] of a dict raises KeyError for a missing key.
RouteType(cls) ==
    IF cls \notin DOMAIN config THEN [itype |-> None, exc |-> "KeyError"]
    ELSE IF EntryIsFalse(config[cls]) THEN [itype |-> "default", exc |-> None]
    ELSE [itype |-> cls, exc |-> None]

\* item['scrapy-mongodb'] = {'ts': utcnow()} of the buffered path.
Stamped(item, itype) ==
    IF config[itype].append_timestamp THEN [item EXCEPT !.ts = TRUE] ELSE item

\* AppendTo with one list shared by the buffers of all types.
AppendToShared(buffers, itype, item) ==
    [t \in DOMAIN buffers |-> Append(buffers[t], item)]

\* self.item_buffer[itype].append(item): the lists of the types are
\* separate objects (open_spider gives each type a new []).
AppendTo(buffers, itype, item) ==
    [buffers EXCEPT ![itype] = Append(@, item)]

\* Whether the item just buffered is the one that fills the buffer.
FlushDue(count, itype) == count = config[itype].buffer

\* self.current_item[itype] once the buffer is handed to insert_item.
CountAfterFlush == 0

\* What process_item hands insert_item of the type's buffer buf:
\* self.item_buffer[itype], the list itself.
FlushBatch(buf) == buf

\* self.item_buffer[itype] after insert_item was given it: the same list,
\* as insert_item left it (nothing empties it).
BufferAfterFlush(batch) == batch

\* The documents of items the server skips as duplicates in InsertDocs.
RECURSIVE SkippedDocs(_, _, _)
SkippedDocs(docs, items, i) ==
    IF i > Len(items) THEN 0
    ELSE IF \E d \in docs : d.id = items[i].id
         THEN 1 + SkippedDocs(docs, items, i + 1)
         ELSE SkippedDocs(docs \cup {items[i]}, items, i + 1)

\* The documents an insert_item call had refused as duplicates; raised says
\* that its insert() raised DuplicateKeyError.
Refused(docs, batch, raised) ==
    IF raised THEN SkippedDocs(docs, WithIds(batch), 1) ELSE 0

\* handed, after the items of batch were given to insert_item.
Handed(h, batch) ==
    [s \in DOMAIN h |->
        h[s] + Cardinality({i \in DOMAIN batch : batch[i].v = s})]

\* process_item reads nothing close_spider leaves behind, so it runs after
\* close_spider as before it; the model follows a run up to the first item
\* that comes after close_spider (phase "late").
ProcessItem(cls, id, k) ==
    /\ phase \in {"open", "closed"}
    /\ phase' = IF phase = "closed" THEN "late" ELSE phase
    /\ nsub < MaxSubmits
    /\ LET item == Serialized(id, k, nsub + 1)
           route == RouteType(cls)
           itype == route.itype
           call == [NoCall EXCEPT !.op = "process_item", !.cls = cls,
                                  !.itype = itype]
       IN  /\ nsub' = nsub + 1
           /\ submitted' = [submitted EXCEPT ![cls] = Append(@, item)]
           /\ IF route.exc # None
              THEN /\ last' = [call EXCEPT !.exc = route.exc]
                   /\ UNCHANGED <<item_buffer, current_item,
                                  duplicate_key_count, store, handed,
                                  engineCalls, violations, dupDocs, stopCalls>>
              ELSE IF /\ Truthy(buffer_settings[itype])
                      /\ "append_timestamp" \notin DOMAIN config[itype]
              THEN \* collection['append_timestamp'] raises KeyError, after
                   \* the count was advanced and before the item is buffered.
                   /\ current_item' = [current_item EXCEPT ![itype] = @ + 1]
                   /\ last' = [call EXCEPT !.exc = "KeyError"]
                   /\ UNCHANGED <<item_buffer, duplicate_key_count, store,
                                  handed, engineCalls, violations, dupDocs, stopCalls>>
              ELSE IF Truthy(buffer_settings[itype])
              THEN LET count == current_item[itype] + 1
                       stamped == Stamped(item, itype)
                       buffers == AppendTo(item_buffer, itype, stamped)
                       buf == buffers[itype]
                   IN  IF FlushDue(count, itype)
                       THEN LET batch == FlushBatch(buf)
                                r == InsertItem(ListValue(batch), itype,
                                                store[collection[itype]],
                                                duplicate_key_count)
                            IN  /\ current_item' = [current_item EXCEPT
                                                      ![itype] = CountAfterFlush]
                                /\ item_buffer' = [buffers EXCEPT ![itype] =
                                                     BufferAfterFlush(r.value.items)]
                                /\ store' = [store EXCEPT
                                               ![collection[itype]] = r.docs]
                                /\ duplicate_key_count' = r.dkc
                                /\ handed' = Handed(handed, batch)
                                /\ engineCalls' = [engineCalls EXCEPT ![itype] = @ + 1]
                                /\ violations' = [violations EXCEPT ![itype] =
                                                    IF r.dup THEN @ + 1 ELSE @]
                                /\ dupDocs' = [dupDocs EXCEPT ![itype] =
                                                 @ + Refused(store[collection[itype]],
                                                             batch, r.dup)]
                                /\ stopCalls' = [stopCalls EXCEPT ![itype] = @ + r.stops]
                                /\ last' = [call EXCEPT
                                              !.path = "flush",
                                              !.calls = <<[itype |-> itype,
                                                           batch |-> batch]>>,
                                              !.ret = IF r.exc = None THEN r.value
                                                      ELSE NoValue,
                                              !.exc = r.exc,
                                              !.dup = r.dup,
                                              !.stops = r.stops,
                                     !.filter = r.filter,
                                     !.wrote = r.docs # store[collection[itype]]]
                       ELSE /\ current_item' = [current_item EXCEPT ![itype] = count]
                            /\ item_buffer' = buffers
                            /\ last' = [call EXCEPT !.path = "buffered",
                                                    !.ret = DictValue(stamped)]
                            /\ UNCHANGED <<duplicate_key_count, store, handed,
                                           engineCalls, violations, dupDocs, stopCalls>>
              ELSE LET r == InsertItem(DictValue(item), itype,
                                       store[collection[itype]],
                                       duplicate_key_count)
                   IN  /\ store' = [store EXCEPT ![collection[itype]] = r.docs]
                       /\ duplicate_key_count' = r.dkc
                       /\ handed' = Handed(handed, <<item>>)
                       /\ engineCalls' = [engineCalls EXCEPT ![itype] = @ + 1]
                       /\ violations' = [violations EXCEPT ![itype] =
                                           IF r.dup THEN @ + 1 ELSE @]
                       /\ dupDocs' = [dupDocs EXCEPT ![itype] =
                                        @ + Refused(store[collection[itype]],
                                                    <<item>>, r.dup)]
                       /\ stopCalls' = [stopCalls EXCEPT ![itype] = @ + r.stops]
                       /\ last' = [call EXCEPT
                                     !.path = "immediate",
                                     !.calls = <<[itype |-> itype,
                                                  batch |-> <<item>>]>>,
                                     !.ret = IF r.exc = None THEN r.value
                                             ELSE NoValue,
                                     !.exc = r.exc,
                                     !.dup = r.dup,
                                     !.stops = r.stops,
                                     !.filter = r.filter,
                                     !.wrote = r.docs # store[collection[itype]]]
                       /\ UNCHANGED <<item_buffer, current_item>>
    /\ UNCHANGED <<config, connected, collection, stop_on_duplicate,
                   buffer_settings, indexes>>

----------------------------------------------------------------------------
(* close_spider *)

\* What close_spider's for statement iterates over: self.item_buffer.values,
\* the bound method of the dict (it is not called).
CloseIterates == "method"

\* The objects a for statement can iterate over.
Iterable == {"list", "dict", "tuple"}

\* close_spider: iter() of a bound method raises TypeError, before the body
\* of the loop (the insert_item of each non-empty buffer) is entered.
CloseSpider ==
    /\ phase = "open"
    /\ CloseIterates \notin Iterable
    /\ phase' = "closed"
    /\ last' = [NoCall EXCEPT !.op = "close_spider", !.exc = "TypeError",
                              !.buffers = item_buffer]
    /\ UNCHANGED <<config, connected, collection, stop_on_duplicate,
                   buffer_settings, item_buffer, current_item,
                   duplicate_key_count, store, indexes, nsub, submitted,
                   handed, engineCalls, violations, dupDocs, stopCalls>>

----------------------------------------------------------------------------

Next ==
    \/ OpenSpider
    \/ \E cls \in ItemClasses, id \in IdValues, k \in KeyValues :
          ProcessItem(cls, id, k)
    \/ CloseSpider

Spec == Init /\ [][Next]_vars

----------------------------------------------------------------------------
(* The claims *)

\* The types items are routed to, once open_spider has returned.
Started == phase \in {"open", "closed", "late"}
Routed == DOMAIN config \cap ItemClasses

\* The duplicate count of a type; a type without a count has none yet.
DupCount(t) == IF t \in DOMAIN duplicate_key_count
               THEN duplicate_key_count[t] ELSE 0

\* The items of class t as the buffered path holds them.
StampedSubmitted(t) ==
    [i \in DOMAIN submitted[t] |-> Stamped(submitted[t][i], t)]

\* The last call was process_item of an item of type t.
LastSubmit(t) == last.op = "process_item" /\ last.cls = t

\* C1: for a type with buffer threshold N > 0, starting from the empty
\* buffer, submissions 1..N-1 cause no insert_item call, and the N-th causes
\* exactly one, whose batch is those N items in submission order, and
\* leaves the type's count at 0.
C1_FirstFlush ==
    Started =>
    \A t \in Routed :
      LET N == config[t].buffer
          n == Len(submitted[t])
      IN  N > 0 =>
          /\ n < N => engineCalls[t] = 0
          /\ n = N => engineCalls[t] = 1 /\ current_item[t] = 0
          /\ n < N /\ LastSubmit(t) => last.calls = <<>>
          /\ n = N /\ LastSubmit(t) =>
                last.calls = <<[itype |-> t, batch |-> StampedSubmitted(t)]>>

\* C2: after a threshold flush the type's buffer is empty, no item is handed
\* to insert_item in more than one batch, and the k-th flush of a type with
\* threshold N holds exactly submissions (k-1)*N+1 .. k*N of the type.
C2_NoItemTwice ==
    /\ \A s \in DOMAIN handed : handed[s] <= 1
    /\ \A t \in Routed :
         LastSubmit(t) /\ last.path = "flush" =>
           LET N == config[t].buffer
               k == engineCalls[t]
           IN  /\ item_buffer[t] = <<>>
               /\ Len(submitted[t]) = k * N
               /\ last.calls[1].batch =
                    SubSeq(StampedSubmitted(t), (k - 1) * N + 1, k * N)

\* C3: for a type without unique key and with stop_on_duplicate T > 0, the
\* engine is not asked to close the spider before the T-th duplicate, is
\* asked once at the T-th, and is not asked again.
C3_StopAtThreshold ==
    Started =>
    \A t \in Routed :
      config[t].unique_key.kind = "none" /\ stop_on_duplicate[t] > 0 =>
        stopCalls[t] = IF violations[t] >= stop_on_duplicate[t] THEN 1 ELSE 0

\* C4: close_spider hands every non-empty buffer to insert_item, in one
\* call per type holding the buffer's items in order, and makes no call for
\* a type with an empty buffer.
C4_CloseFlushes ==
    last.op = "close_spider" =>
    \A t \in DOMAIN last.buffers :
      LET mine == {i \in DOMAIN last.calls : last.calls[i].itype = t}
      IN  IF last.buffers[t] # <<>>
          THEN /\ Cardinality(mine) = 1
               /\ \A i \in mine : last.calls[i].batch = last.buffers[t]
          ELSE mine = {}

\* C5: for a type without buffer threshold each submission makes exactly
\* one insert_item call, for that item alone, which writes it to the store
\* before process_item returns; the buffer and the count stay empty and 0.
C5_Immediate ==
    \A t \in Routed :
      Started /\ LastSubmit(t) /\ config[t].buffer = 0 =>
        /\ last.calls = <<[itype |-> t, batch |-> <<submitted[t][Len(submitted[t])]>>]>>
        /\ last.exc = None
        /\ last.dup \/ \E d \in store[collection[t]] : d.v = nsub
        /\ item_buffer[t] = <<>>
        /\ current_item[t] = 0

\* The items of type t given to insert_item so far, in submission order.
HandedOf(t) == SelectSeq(submitted[t], LAMBDA r : handed[r.v] > 0)

\* C6: for a type with a unique key, two items with the same key value
\* leave exactly one stored document for the key, the second item; the
\* store never holds two documents of one key value.
C6_UpsertIdempotent ==
    Started =>
    \A t \in Routed :
      config[t].unique_key.kind # "none" =>
        \A kv \in KeyValues :
          LET given == SelectSeq(HandedOf(t), LAMBDA r : r.k = kv)
              docs == {d \in store[collection[t]] : d.k = kv}
          IN  /\ Cardinality(docs) <= 1
              /\ Len(given) >= 2 =>
                   /\ Cardinality(docs) = 1
                   /\ \A d \in docs : d.v = given[Len(given)].v

\* C7: for a type whose stop_on_duplicate is 0, duplicates never make the
\* engine close the spider and never change the type's duplicate count.
C7_NoStopAtZero ==
    Started =>
    \A t \in Routed :
      stop_on_duplicate[t] = 0 => stopCalls[t] = 0 /\ DupCount(t) = 0

C7_Witness ==
    \E t \in Routed :
      /\ Started
      /\ stop_on_duplicate[t] = 0
      /\ violations[t] >= 2
      /\ LastSubmit(t)
      /\ last.dup

\* C8: an item whose class has no entry in config['collection'] is
\* processed without error as type "default"; an item whose class has an
\* entry is processed as that type.
C8_Fallback ==
    last.op = "process_item" =>
      IF last.cls \in DOMAIN config
      THEN last.itype = last.cls
      ELSE last.itype = "default" /\ last.exc = None

\* C9: a DuplicateKeyError is handled inside insert_item whatever the
\* type's stop_on_duplicate: the process_item it occurs in returns normally.
C9_DuplicateAbsorbed ==
    last.op = "process_item" /\ last.dup =>
      last.exc = None /\ last.ret # NoValue

\* C10: process_item returns the one item it was given (stamped or not),
\* whether the item was buffered, inserted at once or set off a flush.
C10_ReturnsItem ==
    last.op = "process_item" /\ last.cls \in DOMAIN config =>
      /\ last.ret.kind = "dict"
      /\ last.ret.items[1].v = nsub
\* C11: when a type's stop_on_duplicate is negative, open_spider fails
\* before a connection to the store is opened and before an index is
\* ensured.
C11_FailsBeforeConnect ==
    phase = "failed" /\ last.exc = "SyntaxError" =>
      ~connected /\ indexes = {}
\* The types whose entry was given without some field.
Partial == {t \in Routed : DOMAIN config[t] # DOMAIN DefaultEntry}

\* C12: an entry given with fields missing behaves as one with the
\* defaults: neither open_spider nor process_item fails for the missing
\* field.
C12_MissingFieldsDefaulted ==
    /\ last.op = "open_spider" /\ Partial # {} => last.exc # "KeyError"
    /\ \A t \in Partial : LastSubmit(t) => last.exc # "KeyError"
\* C13: when close_spider has run, every buffer is empty and every item
\* submitted, of a type that has an entry, was handed to insert_item exactly
\* once: at once, in a threshold flush or in the flush of close_spider.
C13_ExactlyOnce ==
    last.op = "close_spider" =>
      /\ \A t \in DOMAIN item_buffer : item_buffer[t] = <<>>
      /\ \A t \in Routed : \A i \in DOMAIN submitted[t] :
            handed[submitted[t][i].v] = 1
\* C14: after every process_item, a type with buffer threshold N > 0 has
\* its count equal to the length of its buffer, and both below N.
C14_BoundedBuffer ==
    Started =>
    \A t \in Routed :
      LET N == config[t].buffer
      IN  N > 0 =>
            /\ current_item[t] = Len(item_buffer[t])
            /\ current_item[t] \in 0..(N - 1)
            /\ Len(item_buffer[t]) \in 0..(N - 1)
\* C15: for a type with a buffer threshold and a unique key, a flush
\* upserts every item of the batch under the item's own key value and ends
\* without error.
C15_BatchUpsert ==
    \A t \in Routed :
      Started /\ LastSubmit(t) /\ last.path = "flush"
        /\ config[t].unique_key.kind # "none" =>
          /\ last.exc = None
          /\ \A i \in DOMAIN last.calls[1].batch :
                \E d \in store[collection[t]] : d.k = last.calls[1].batch[i].k
\* C16: for a buffered type without unique key and with stop_on_duplicate
\* T > 0, a batch insert stores every item of the batch that is no
\* duplicate, and the type's duplicate count advances by one for each
\* duplicate of the batch: it is the number of duplicates seen so far.
C16_CountPerDuplicate ==
    Started =>
    \A t \in Routed :
      /\ config[t].unique_key.kind = "none"
      /\ config[t].buffer > 0
      /\ stop_on_duplicate[t] > 0
      => /\ DupCount(t) = dupDocs[t]
         /\ LastSubmit(t) /\ last.path = "flush" =>
              \A i \in DOMAIN item_buffer[t] :
                \E d \in store[collection[t]] : d.id = item_buffer[t][i].id
\* C17: for a type with a unique key, no submission or flush meets a
\* DuplicateKeyError, changes the type's duplicate count or makes the engine
\* close the spider, also when its stop_on_duplicate is > 0 and items repeat
\* a key value.
C17_KeyedNeverCounts ==
    Started =>
    \A t \in Routed :
      config[t].unique_key.kind # "none" =>
        violations[t] = 0 /\ DupCount(t) = 0 /\ stopCalls[t] = 0

C17_Witness ==
    \E t \in Routed :
      /\ Started
      /\ config[t].unique_key.kind # "none"
      /\ stop_on_duplicate[t] > 0
      /\ LastSubmit(t)
      /\ last.path = "flush"
      /\ \E i, j \in DOMAIN item_buffer[t] :
            /\ i # j
            /\ item_buffer[t][i].k = item_buffer[t][j].k
            /\ item_buffer[t][i].id = item_buffer[t][j].id
\* The key the claim gives an item under a unique_key: one entry for each
\* configured field name, with the item's value of the field.
ClaimedKey(unique_key, item) ==
    [n \in {IndexFields(unique_key)[i] : i \in DOMAIN IndexFields(unique_key)}
        |-> item[n]]

\* C18: for a type with a unique key, the key insert_item builds for an
\* item handed to it maps each configured field name, and nothing else, to
\* the item's value of the field: {f1: r[f1], ..., fn: r[fn]} for a list of
\* fields, {f: r[f]} for one field.
C18_KeyFilter ==
    \A t \in Routed :
      Started /\ LastSubmit(t) /\ last.calls # <<>>
        /\ config[t].unique_key.kind # "none" =>
          /\ last.filter.built
          /\ last.path = "immediate" =>
               last.filter.key =
                  ClaimedKey(config[t].unique_key, submitted[t][Len(submitted[t])])
\* No item is in the buffers of two types.
InOneBuffer ==
    \A t1, t2 \in DOMAIN item_buffer :
      t1 # t2 =>
        \A i \in DOMAIN item_buffer[t1], j \in DOMAIN item_buffer[t2] :
          item_buffer[t1][i].v # item_buffer[t2][j].v

\* C19: a process_item of an item routed to one type leaves the buffer, the
\* count and the duplicate count of every other type as they were, and no
\* item is ever in the buffers of two types.
C19_TypeIsolation ==
    [][ /\ InOneBuffer'
        /\ \A t \in DOMAIN config :
             last'.op = "process_item" /\ last'.itype # t =>
               /\ item_buffer'[t] = item_buffer[t]
               /\ current_item'[t] = current_item[t]
               /\ DupCount(t)' = DupCount(t) ]_vars

C19_Witness ==
    \E t1, t2 \in Routed :
      /\ t1 # t2
      /\ Started
      /\ LastSubmit(t1)
      /\ last.path \in {"buffered", "flush"}
      /\ item_buffer[t1] # <<>>
      /\ item_buffer[t2] # <<>>
\* C20: after close_spider no item is accepted: a later process_item
\* neither appends to a buffer nor writes to the store.
C20_ClosedRejects ==
    phase = "late" =>
      /\ last.path \notin {"buffered", "flush"}
      /\ ~last.wrote
====
